---- MODULE Spec2Model ----
(***************************************************************************)
(* Model of src/main.py: click placement of points, then circles that grow *)
(* step by step, with isolation counters, pause and restart.               *)
(*                                                                         *)
(* Lengths are fixed-point numbers in hundredths (expansion_rate 0.05 is   *)
(* 5), so that additions and the overlap comparison are exact.             *)
(*                                                                         *)
(* The program is single-threaded: the event handlers (on_key_press,       *)
(* on_click) run only while the main code is inside plt.pause / plt.show.  *)
(* pc names the call the main code is blocked in, or "step_body" when it   *)
(* is about to execute the body of the for loop; the main code between     *)
(* two such places runs without yielding and is one action.                *)
(***************************************************************************)
EXTENDS Integers, Sequences, FiniteSets, TLC

\* ---- parameters (src/main.py:8-13) -------------------------------------
\* the program sets num_points = 10 (line 8); the model is checked for fewer points
num_points == 3
manual_points == num_points
expansion_rate == 5
steps == 20
isolation_limit == 4

\* ---- input domain of the click coordinates -----------------------------
MaxX == 2
XCoords == {50 * i : i \in 0..MaxX}
YCoords == {0, 10}
\* the clicked positions: the grid points on the two axes
Coords == {xy \in XCoords \X YCoords : xy[1] = 0 \/ xy[2] = 0}

VARIABLES
    paused,               \* global paused
    restart_requested,    \* global restart_requested
    manual_points_list,   \* global manual_points_list
    points,               \* points array (empty until initialize_simulation)
    radii,                \* radii array
    isolation_counts,     \* isolation_counts array
    step,                 \* loop variable of "for step in range(steps)", -1 = unbound
    pc,                   \* where the main code is
    last,                 \* history: name of the last action taken
    done,                 \* history: number of step bodies executed in the current run
    reached_limit,        \* history: per point, counter has reached isolation_limit in this run
    connections,          \* connections matrix (empty until initialize_simulation)
    lines,                \* output: index pairs joined by a line on the axes
    active,               \* output: is_active per point, as used for the colours
    predicted,            \* output: predicted_radius of the dashed circle, per active point
    isolated_count,       \* output: isolated_count of the title, -1 = unbound
    ever_touched,         \* history: per point, connected in some step of this run
    untouched_pred        \* history: per point, predictions shown since it was last connected

vars == <<paused, restart_requested, manual_points_list, points, radii,
          isolation_counts, step, pc, last, done, reached_limit,
          connections, lines, active, predicted, isolated_count,
          ever_touched, untouched_pred>>

\* what a step draws and writes in the title
output == <<lines, active, predicted, isolated_count>>

\* the per-run history of touches and predictions
touch_hist == <<ever_touched, untouched_pred>>

sim == <<radii, isolation_counts, step>>

Idx == 1..num_points

Zeros == [i \in Idx |-> 0]

NoneReached == [i \in Idx |-> FALSE]

\* line 74: np.ones((num_points, num_points), dtype=bool)
AllConnected == [ij \in Idx \X Idx |-> TRUE]

NoPredictions == [i \in Idx |-> {}]

\* the main code is inside plt.pause or plt.show: handlers may run
AtYield == pc \in {"placing", "pausewait", "steppause", "show"}

\* ---- pure functions ----------------------------------------------------
\* mutant of circles_overlap: "<" for "<=", tangent circles do not overlap
circles_overlap_Strict(p1, p2, r1, r2) ==
    (p1[1] - p2[1]) * (p1[1] - p2[1]) + (p1[2] - p2[2]) * (p1[2] - p2[2])
        < (r1 + r2) * (r1 + r2)

\* circles_overlap: sqrt(((p1-p2)**2).sum()) <= r1 + r2, compared on squares
circles_overlap(p1, p2, r1, r2) ==
    (p1[1] - p2[1]) * (p1[1] - p2[1]) + (p1[2] - p2[2]) * (p1[2] - p2[2])
        <= (r1 + r2) * (r1 + r2)

\* mutant of Grow: the mask is inverted, only the isolated circles grow
Grow_InvertedMask(r, iso) ==
    [i \in Idx |-> IF iso[i] >= isolation_limit THEN r[i] + expansion_rate ELSE r[i]]

\* mutant of Grow: "<=" for "<", a circle grows once more at the limit
Grow_OffByOne(r, iso) ==
    [i \in Idx |-> IF iso[i] <= isolation_limit THEN r[i] + expansion_rate ELSE r[i]]

\* mutant of Grow: the limit is taken one too small
Grow_StopsEarly(r, iso) ==
    [i \in Idx |-> IF iso[i] < isolation_limit - 1 THEN r[i] + expansion_rate ELSE r[i]]

\* lines 186-187: radii[isolation_counts < isolation_limit] += expansion_rate
Grow(r, iso) ==
    [i \in Idx |-> IF iso[i] < isolation_limit THEN r[i] + expansion_rate ELSE r[i]]

\* lines 142-149: the connected vector of update_connections
Connected(p, r) ==
    [k \in Idx |-> \E i \in Idx : \E j \in (i+1)..num_points :
                      /\ circles_overlap(p[i], p[j], r[i], r[j])
                      /\ k \in {i, j}]

\* mutant of update_connections: the counter of a circle at the limit is
\* no longer reset when the circle is connected
update_connections_KeepsFrozen(iso, connected) ==
    [i \in Idx |-> IF connected[i] /\ iso[i] < isolation_limit THEN 0 ELSE iso[i] + 1]

\* lines 190-195 (and 150-152): the pairs joined by a line in a step
DrawnLines(p, r) ==
    {ij \in Idx \X Idx : ij[1] < ij[2] /\ circles_overlap(p[ij[1]], p[ij[2]], r[ij[1]], r[ij[2]])}

\* line 147: connections[i, j] = True for the overlapping pairs
MarkConnections(c, p, r) ==
    [ij \in Idx \X Idx |-> IF ij \in DrawnLines(p, r) THEN TRUE ELSE c[ij]]

\* line 200: is_active, read before update_connections has run
is_active(iso) ==
    [i \in Idx |-> iso[i] < isolation_limit]

\* lines 208-210: predicted_radius of the active points, from the radii
\* after growth and the counters before update_connections
predicted_radius(r, iso) ==
    [i \in {k \in Idx : is_active(iso)[k]} |->
        r[i] + (isolation_limit - iso[i]) * expansion_rate]

\* line 229: np.sum(isolation_counts >= isolation_limit), after the update
IsolatedCount(iso) ==
    Cardinality({i \in Idx : iso[i] >= isolation_limit})

\* mutant of update_connections: the two masks are exchanged
update_connections_Swapped(iso, connected) ==
    [i \in Idx |-> IF connected[i] THEN iso[i] + 1 ELSE 0]

\* mutant of update_connections: the counter is capped at the limit
update_connections_Capped(iso, connected) ==
    [i \in Idx |-> IF connected[i] THEN 0
                   ELSE IF iso[i] + 1 > isolation_limit THEN isolation_limit
                   ELSE iso[i] + 1]

\* lines 155-156: the counter update of update_connections
update_connections(iso, connected) ==
    [i \in Idx |-> IF connected[i] THEN 0 ELSE iso[i] + 1]

\* ---- initial state -----------------------------------------------------
Init ==
    /\ paused = FALSE
    /\ restart_requested = FALSE
    /\ manual_points_list = << >>
    /\ points = << >>
    /\ radii = << >>
    /\ isolation_counts = << >>
    /\ step = -1
    /\ pc = "placing"
    /\ last = "init"
    /\ done = 0
    /\ reached_limit = NoneReached
    /\ connections = << >>
    /\ lines = {}
    /\ active = << >>
    /\ predicted = << >>
    /\ isolated_count = -1
    /\ ever_touched = NoneReached
    /\ untouched_pred = NoPredictions

\* ---- handlers ----------------------------------------------------------
\* on_key_press, event.key == ' '.  The title update that follows reads
\* "step", which is unbound during placement; the assignment to paused has
\* already happened then.
KeySpace ==
    /\ AtYield
    /\ paused' = ~paused
    /\ last' = "KeySpace"
    /\ UNCHANGED <<restart_requested, manual_points_list, points, radii,
                   isolation_counts, step, pc, done, reached_limit,
                   connections, output, touch_hist>>

\* mutant of KeyR: line 30 (paused = False) is missing
KeyR_KeepsPaused ==
    /\ AtYield
    /\ restart_requested' = TRUE
    /\ last' = IF paused THEN "KeyR_paused" ELSE "KeyR"
    /\ UNCHANGED <<paused, manual_points_list, points, radii, isolation_counts,
                   step, pc, done, reached_limit,
                   connections, output, touch_hist>>

\* mutant of KeyR: the handler itself zeroes the radii
KeyR_ResetsNow ==
    /\ AtYield
    /\ restart_requested' = TRUE
    /\ paused' = FALSE
    /\ radii' = IF radii = << >> THEN radii ELSE Zeros
    /\ last' = IF paused THEN "KeyR_paused" ELSE "KeyR"
    /\ UNCHANGED <<manual_points_list, points, isolation_counts,
                   step, pc, done, reached_limit,
                   connections, output, touch_hist>>

\* on_key_press, event.key == 'r' (last records whether the run was paused)
KeyR ==
    /\ AtYield
    /\ restart_requested' = TRUE
    /\ paused' = FALSE
    /\ last' = IF paused THEN "KeyR_paused" ELSE "KeyR"
    /\ UNCHANGED <<manual_points_list, points, radii, isolation_counts,
                   step, pc, done, reached_limit,
                   connections, output, touch_hist>>

\* mutant of on_click: the test on the length of the list is missing
on_click_NoLimit(xy, inaxes) ==
    IF inaxes
    THEN manual_points_list' = Append(manual_points_list, xy)
    ELSE manual_points_list' = manual_points_list

\* on_click: inaxes stands for "event.inaxes == ax"
on_click(xy, inaxes) ==
    IF inaxes /\ Len(manual_points_list) < manual_points
    THEN manual_points_list' = Append(manual_points_list, xy)
    ELSE manual_points_list' = manual_points_list

Click ==
    /\ AtYield
    /\ \E xy \in Coords, inaxes \in BOOLEAN : on_click(xy, inaxes)
    /\ last' = "Click"
    /\ UNCHANGED <<paused, restart_requested, points, radii,
                   isolation_counts, step, pc, done, reached_limit,
                   connections, output, touch_hist>>

\* ---- main code ---------------------------------------------------------
\* mutant of StartRun: line 169 is missing, the counters are only those of
\* line 137
StartRun_KeepCounters ==
    /\ restart_requested' = FALSE
    /\ points' = manual_points_list
    /\ radii' = Zeros
    /\ isolation_counts' = IF isolation_counts = << >> THEN Zeros ELSE isolation_counts
    /\ step' = 0
    /\ pc' = IF paused THEN "pausewait" ELSE "step_body"
    /\ done' = 0
    /\ reached_limit' = NoneReached
    /\ connections' = AllConnected
    /\ ever_touched' = NoneReached
    /\ untouched_pred' = NoPredictions
    /\ UNCHANGED <<paused, manual_points_list, output>>

\* lines 167-169 (and 129, 137 the first time), the first "for" header, and
\* lines 172-181 of the first iteration up to the next place the code stops
StartRun ==
    /\ restart_requested' = FALSE
    /\ points' = manual_points_list
    /\ radii' = Zeros
    /\ isolation_counts' = Zeros
    /\ step' = 0
    /\ pc' = IF paused THEN "pausewait" ELSE "step_body"
    /\ done' = 0
    /\ reached_limit' = NoneReached
    /\ connections' = AllConnected
    /\ ever_touched' = NoneReached
    /\ untouched_pred' = NoPredictions
    /\ UNCHANGED <<paused, manual_points_list, output>>

\* mutant of FinishPlacement: the placement loop ends one point short
FinishPlacement_OneShort ==
    /\ pc = "placing"
    /\ Len(manual_points_list) >= manual_points - 1
    /\ StartRun
    /\ last' = "FinishPlacement"

\* lines 125-129: the placement loop ends when N points are collected
FinishPlacement ==
    /\ pc = "placing"
    /\ Len(manual_points_list) >= manual_points
    /\ StartRun
    /\ last' = "FinishPlacement"

\* lines 175-181 and 233: plt.pause(0.1) returns with the restart flag set
PauseRestart ==
    /\ pc = "pausewait"
    /\ restart_requested
    /\ StartRun
    /\ last' = "PauseRestart"

\* mutant of Resume: the pause loop is left although paused is still set
Resume_IgnoresPaused ==
    /\ pc = "pausewait"
    /\ ~restart_requested
    /\ pc' = "step_body"
    /\ last' = "Resume"
    /\ UNCHANGED <<paused, restart_requested, manual_points_list, points,
                   radii, isolation_counts, step, done, reached_limit,
                   connections, output, touch_hist>>

\* lines 175-181: plt.pause(0.1) returns, no restart, no longer paused
Resume ==
    /\ pc = "pausewait"
    /\ ~restart_requested
    /\ ~paused
    /\ pc' = "step_body"
    /\ last' = "Resume"
    /\ UNCHANGED <<paused, restart_requested, manual_points_list, points,
                   radii, isolation_counts, step, done, reached_limit,
                   connections, output, touch_hist>>

\* lines 183-230: one step: growth, drawing, then update_connections and
\* the title
Step ==
    /\ pc = "step_body"
    /\ radii' = Grow(radii, isolation_counts)
    /\ isolation_counts' = update_connections(isolation_counts, Connected(points, radii'))
    /\ pc' = "steppause"
    /\ last' = "Step"
    /\ done' = done + 1
    /\ reached_limit' = [i \in Idx |-> reached_limit[i] \/ isolation_counts'[i] >= isolation_limit]
    /\ lines' = DrawnLines(points, radii')
    /\ active' = is_active(isolation_counts)
    /\ predicted' = predicted_radius(radii', isolation_counts)
    /\ connections' = MarkConnections(connections, points, radii')
    /\ isolated_count' = IsolatedCount(isolation_counts')
    /\ ever_touched' = [i \in Idx |-> ever_touched[i] \/ Connected(points, radii')[i]]
    /\ untouched_pred' =
         [i \in Idx |-> IF Connected(points, radii')[i] THEN {}
                         ELSE IF active'[i] THEN untouched_pred[i] \cup {predicted'[i]}
                         ELSE untouched_pred[i]]
    /\ UNCHANGED <<paused, restart_requested, manual_points_list, points, step>>

\* mutant of NextIteration: the restart checks of lines 172 and 180 are
\* missing
NextIteration_NoRestartCheck ==
    /\ pc = "steppause"
    /\ step < steps - 1
    /\ step' = step + 1
    /\ pc' = IF paused THEN "pausewait" ELSE "step_body"
    /\ last' = "NextIteration"
    /\ UNCHANGED <<paused, restart_requested, manual_points_list, points,
                   radii, isolation_counts, done, reached_limit,
                   connections, output, touch_hist>>

\* line 231 returns, line 171 yields the next index, lines 172-181
NextIteration ==
    /\ pc = "steppause"
    /\ ~restart_requested
    /\ step < steps - 1
    /\ step' = step + 1
    /\ pc' = IF paused THEN "pausewait" ELSE "step_body"
    /\ last' = "NextIteration"
    /\ UNCHANGED <<paused, restart_requested, manual_points_list, points,
                   radii, isolation_counts, done, reached_limit,
                   connections, output, touch_hist>>

\* line 231 returns with the restart flag set: break at 173 (or the loop is
\* exhausted), line 233 does not break, the while loop starts a new run
StepRestart ==
    /\ pc = "steppause"
    /\ restart_requested
    /\ StartRun
    /\ last' = "StepRestart"

\* mutant of Complete: the loop ends one iteration early
Complete_OneShort ==
    /\ pc = "steppause"
    /\ ~restart_requested
    /\ step = steps - 2
    /\ pc' = "show"
    /\ last' = "Complete"
    /\ UNCHANGED <<paused, restart_requested, manual_points_list, points,
                   radii, isolation_counts, step, done, reached_limit,
                   connections, output, touch_hist>>

\* line 231 returns, the loop is exhausted, line 234 breaks to plt.show()
Complete ==
    /\ pc = "steppause"
    /\ ~restart_requested
    /\ step = steps - 1
    /\ pc' = "show"
    /\ last' = "Complete"
    /\ UNCHANGED <<paused, restart_requested, manual_points_list, points,
                   radii, isolation_counts, step, done, reached_limit,
                   connections, output, touch_hist>>

Main ==
    \/ FinishPlacement
    \/ PauseRestart
    \/ Resume
    \/ Step
    \/ NextIteration
    \/ StepRestart
    \/ Complete

Next ==
    \/ KeySpace
    \/ KeyR
    \/ Click
    \/ FinishPlacement
    \/ PauseRestart
    \/ Resume
    \/ Step
    \/ NextIteration
    \/ StepRestart
    \/ Complete

Spec == Init /\ [][Next]_vars

\* the event loop always returns control to the main code
FairSpec == Spec /\ WF_vars(Main)

TypeOK ==
    /\ paused \in BOOLEAN
    /\ restart_requested \in BOOLEAN
    /\ Len(manual_points_list) <= manual_points
    /\ pc \in {"placing", "pausewait", "step_body", "steppause", "show"}
    /\ done \in 0..steps

\* ---- names used by the properties --------------------------------------
HandlerNames == {"KeySpace", "KeyR", "KeyR_paused", "Click"}

RestartNames == {"PauseRestart", "StepRestart"}

Placed == Len(manual_points_list) = manual_points

\* ---- C1 ----------------------------------------------------------------
\* C1: whenever a run is restarted (the restart flag is cleared after the
\* placement phase), in the state after the restart every radius is 0,
\* every isolation counter is 0, the step index is 0, the restart flag is
\* clear, and the placed points (list and array, values and order) are what
\* they were before; whatever the number of steps executed before.
C1_RestartResets ==
    [][(pc # "placing" /\ restart_requested /\ ~restart_requested')
         => /\ radii' = Zeros
            /\ isolation_counts' = Zeros
            /\ step' = 0
            /\ manual_points_list' = manual_points_list
            /\ points' = points
            /\ points' = manual_points_list]_vars

\* a restart taken at the end of a step (so after at least one step of the
\* abandoned run) has just reset the state
C1_Witness ==
    /\ last = "StepRestart"
    /\ radii = Zeros /\ isolation_counts = Zeros /\ step = 0
    /\ ~restart_requested
    /\ Len(points) = num_points

\* ---- C2 ----------------------------------------------------------------
\* C2: while the restart flag is set during a run, the only change made to
\* the radii, the isolation counters or the step index is the reset to
\* zero; no step body is executed.
C2_NoStepAfterRestartSignal ==
    [][(pc # "placing" /\ restart_requested)
         => \/ UNCHANGED sim /\ done' = done
            \/ /\ radii' = Zeros /\ isolation_counts' = Zeros /\ step' = 0
               /\ done' = 0 /\ ~restart_requested']_vars

\* a restart signal is pending in the middle of a run (10 of 20 steps done)
C2_Witness ==
    /\ restart_requested
    /\ pc = "steppause"
    /\ done = 10
    /\ last \in {"KeyR", "KeyR_paused"}
    /\ radii # Zeros

\* ---- C3 ----------------------------------------------------------------
\* C3: a restart signal received while the run is paused leaves the paused
\* flag false and the restart flag set; and when the main code next acts
\* with the restart flag set and the paused flag false, it restarts: the
\* state is reset and the code is at the body of step 0, which it executes.
C3_RestartWhilePaused ==
    [][/\ (pc \in {"pausewait", "steppause"} /\ paused /\ last' \in {"KeyR", "KeyR_paused"})
            => (~paused' /\ restart_requested' /\ last' = "KeyR_paused")
       /\ (pc \in {"pausewait", "steppause"} /\ restart_requested /\ ~paused
              /\ last' \notin HandlerNames)
            => /\ pc' = "step_body"
               /\ step' = 0 /\ radii' = Zeros /\ isolation_counts' = Zeros
               /\ ~paused' /\ ~restart_requested'
       /\ (pc = "step_body") => (last' = "Step" /\ pc' = "steppause" /\ step' = step)]_vars

\* the run was suspended in the pause loop mid-run and the restart signal
\* has just been received while paused
C3_Witness ==
    /\ last = "KeyR_paused"
    /\ pc = "pausewait"
    /\ done > 0
    /\ ~paused
    /\ restart_requested

\* ---- C4 ----------------------------------------------------------------
\* C4: while the main code waits in the pause loop and no restart has been
\* requested, the step index, the radii and the isolation counters do not
\* change; during a run no radius or counter changes while the paused flag
\* is set and no restart is requested; and the step executed next always
\* has the index equal to the number of steps already executed (none lost,
\* none repeated).
C4_PausedNothingAdvances ==
    /\ [][(pc = "pausewait" /\ ~restart_requested) => UNCHANGED sim]_vars
    /\ [][(pc # "placing" /\ paused /\ ~restart_requested)
            => (radii' = radii /\ isolation_counts' = isolation_counts /\ done' = done)]_vars
    /\ [](pc \in {"pausewait", "step_body"} => step = done)
    /\ [](pc \in {"steppause", "show"} => step = done - 1)

\* the run has been resumed from the pause loop in the middle of a run
C4_Witness ==
    /\ last = "Resume"
    /\ pc = "step_body"
    /\ done = 10
    /\ step = 10
    /\ ~paused

\* ---- C5 ----------------------------------------------------------------
\* C5: while fewer than N points are collected the main code is in the
\* placement loop and no step has been executed; the placement loop is left
\* only with N points, and then radii and counters are all 0, the step
\* index is 0 and the points array is the list of clicked points; the list
\* only ever grows by appending the clicked point at its end.
C5_NoStepBeforeNPoints ==
    /\ [](Len(manual_points_list) < manual_points
            => (pc = "placing" /\ done = 0 /\ radii = << >> /\ step = -1))
    /\ [][(pc = "placing" /\ pc' # "placing")
            => /\ Len(manual_points_list) = manual_points
               /\ radii' = Zeros /\ isolation_counts' = Zeros /\ step' = 0
               /\ points' = manual_points_list]_vars
    /\ [][manual_points_list' # manual_points_list
            => /\ Len(manual_points_list') = Len(manual_points_list) + 1
               /\ SubSeq(manual_points_list', 1, Len(manual_points_list)) = manual_points_list
               /\ last' = "Click"]_vars

\* the first run has just started, with three different clicked points
C5_Witness ==
    /\ last = "FinishPlacement"
    /\ pc = "step_body"
    /\ points = manual_points_list
    /\ points[1] # points[2]
    /\ points[2] # points[num_points]
    /\ radii = Zeros

\* ---- C6 ----------------------------------------------------------------
\* C6: a click handled when N points are already collected changes nothing:
\* not the point list, the points, the radii, the counters, the step index,
\* the flags, nor where the main code is.
C6_ClickAfterNIsNoOp ==
    [][(last' = "Click" /\ Len(manual_points_list) >= manual_points)
         => UNCHANGED <<manual_points_list, points, radii, isolation_counts,
                        step, paused, restart_requested, pc, done>>]_vars

\* a click has been handled after the run completed
C6_Witness ==
    /\ last = "Click"
    /\ pc = "show"
    /\ Placed

\* ---- C7 ----------------------------------------------------------------
\* C7: every executed step has the index equal to the number of steps
\* already executed in the run (indices 0, 1, 2, ... each once, below
\* steps); the run is COMPLETED only after exactly steps steps, the last
\* with index steps-1; once COMPLETED no signal changes a radius, a counter,
\* the step index or the points; and, the main code being scheduled fairly,
\* if from some point on the points are placed, no restart is requested and
\* the paused flag stays false, the run reaches COMPLETED.
C7_RunCompletes ==
    /\ [][last' = "Step" => (step = done /\ step' = step /\ done' = done + 1 /\ step < steps)]_vars
    /\ [](pc = "show" => (done = steps /\ step = steps - 1))
    /\ [][pc = "show" => (pc' = "show" /\ UNCHANGED <<sim, points, done>>)]_vars
    /\ (<>[](Placed /\ ~paused /\ ~restart_requested) => <>(pc = "show"))

\* the run is COMPLETED and a restart signal has been received since
C7_Witness ==
    /\ pc = "show"
    /\ done = steps
    /\ last \in {"KeyR", "KeyR_paused"}
    /\ restart_requested
    /\ radii # Zeros

\* ---- C8 ----------------------------------------------------------------
\* C8: in a run, after k executed steps (0 <= k <= steps), every point
\* whose isolation counter has not reached the isolation limit in those
\* steps has radius k * expansion_rate.
C8_RadiusOfNeverIsolated ==
    pc # "placing" =>
        \A i \in Idx : ~reached_limit[i] => radii[i] = done * expansion_rate

\* a completed run with a point that never reached the limit and one that did
C8_Witness ==
    /\ pc = "show"
    /\ done = steps
    /\ \E i \in Idx : ~reached_limit[i] /\ radii[i] = steps * expansion_rate
    /\ \E j \in Idx : reached_limit[j]

\* ---- C9 ----------------------------------------------------------------
\* C9 (as stated): in a step, a point whose isolation counter has reached
\* the isolation limit earlier in the run keeps its radius.
C9_FrozenNeverGrowsAgain ==
    [][last' = "Step" => \A i \in Idx : reached_limit[i] => radii'[i] = radii[i]]_vars

\* C9 (amended): a point whose isolation counter is at or above the
\* isolation limit keeps its radius in the step; during a run a radius
\* changes only in a step that finds the point's counter below the limit,
\* or in the reset of a restart.
C9_FrozenWhileAtLimit ==
    /\ [][last' = "Step"
            => \A i \in Idx : isolation_counts[i] >= isolation_limit => radii'[i] = radii[i]]_vars
    /\ [][pc # "placing"
            => \A i \in Idx : radii'[i] # radii[i]
                 => \/ last' = "Step" /\ isolation_counts[i] < isolation_limit
                    \/ last' \in RestartNames]_vars

\* a point has stayed frozen at isolation_limit * expansion_rate in a later
\* step while another point kept growing
C9_Witness ==
    /\ pc = "steppause"
    /\ \E i \in Idx : /\ isolation_counts[i] > isolation_limit
                      /\ radii[i] = isolation_limit * expansion_rate
    /\ \E j \in Idx : radii[j] = done * expansion_rate /\ done > isolation_limit

\* ---- C10 ---------------------------------------------------------------
\* the point i, with radius r, overlaps some other circle of the step
TouchedWith(i, r, rs) ==
    \E j \in Idx \ {i} : circles_overlap(points[i], points[j], r, rs[j])

\* C10: in a step that finds point i with its counter at or above the
\* limit, the radius of i is unchanged; if with that unchanged radius it
\* overlaps another circle as grown in the step, its counter becomes 0,
\* otherwise its counter is incremented; and a point that has been frozen
\* and whose counter is 0 grows by expansion_rate in the next step.
C10_FrozenUntilTouched ==
    /\ [][last' = "Step"
            => \A i \in Idx : isolation_counts[i] >= isolation_limit
                 => /\ radii'[i] = radii[i]
                    /\ isolation_counts'[i] =
                         IF TouchedWith(i, radii[i], radii') THEN 0
                         ELSE isolation_counts[i] + 1]_vars
    /\ [][last' = "Step"
            => \A i \in Idx : (reached_limit[i] /\ isolation_counts[i] = 0)
                 => radii'[i] = radii[i] + expansion_rate]_vars

\* a point that was frozen has been touched and has grown again
C10_Witness ==
    \E i \in Idx : /\ reached_limit[i]
                   /\ isolation_counts[i] = 0
                   /\ radii[i] > isolation_limit * expansion_rate
                   /\ radii[i] < done * expansion_rate

\* ---- C11 ---------------------------------------------------------------
\* squared Euclidean distance between two centres
SqDist(p, q) ==
    (p[1] - q[1]) * (p[1] - q[1]) + (p[2] - q[2]) * (p[2] - q[2])

\* i and j are joined by a line of the last step
Linked(ls, i, j) == <<i, j>> \in ls \/ <<j, i>> \in ls

\* C11: after every step, two distinct points i and j are joined exactly
\* when the distance between their centres is at most the sum of their
\* radii as grown in that step (equality included); the test gives the
\* same answer for (i, j) and (j, i); the joined pairs are those of this
\* step only; and the counter of a point is 0 after the step exactly when
\* it is joined to some other point.
C11_ConnectedIffOverlap ==
    [][last' = "Step"
         => \A i, j \in Idx : i # j
              => /\ Linked(lines', i, j)
                      <=> SqDist(points[i], points[j])
                             <= (radii'[i] + radii'[j]) * (radii'[i] + radii'[j])
                 /\ circles_overlap(points[i], points[j], radii'[i], radii'[j])
                      <=> circles_overlap(points[j], points[i], radii'[j], radii'[i])
                 /\ isolation_counts'[i] = 0 <=> \E k \in Idx \ {i} : Linked(lines', i, k)]_vars

\* a step has joined a tangent pair and left another pair apart
C11_Witness ==
    /\ last = "Step"
    /\ \E ij \in lines :
         SqDist(points[ij[1]], points[ij[2]])
            = (radii[ij[1]] + radii[ij[2]]) * (radii[ij[1]] + radii[ij[2]])
    /\ \E i, j \in Idx : i < j /\ <<i, j>> \notin lines

\* ---- C12 ---------------------------------------------------------------
\* the smaller of two numbers
Min(a, b) == IF a <= b THEN a ELSE b

\* C12: in a run, a point that has not been connected in any of the k
\* executed steps has counter k, has radius min(k, isolation_limit) *
\* expansion_rate, and its counter has reached the limit exactly when
\* k >= isolation_limit; so it stops growing after isolation_limit steps
\* and ends the run with radius isolation_limit * expansion_rate.
C12_NeverTouchedFreezes ==
    pc # "placing" =>
        \A i \in Idx : ~ever_touched[i]
            => /\ isolation_counts[i] = done
               /\ radii[i] = Min(done, isolation_limit) * expansion_rate
               /\ reached_limit[i] <=> done >= isolation_limit
               /\ pc = "show" => radii[i] = isolation_limit * expansion_rate

\* a completed run in which no point was ever connected
C12_Witness ==
    /\ pc = "show"
    /\ done = steps
    /\ \A i \in Idx : /\ ~ever_touched[i]
                      /\ radii[i] = isolation_limit * expansion_rate
                      /\ isolation_counts[i] = steps

\* ---- C13 ---------------------------------------------------------------
\* C13: in a step that is not the first of its run, two points joined in
\* the previous step are joined again, both counters are 0 before and
\* after the step, and both radii grow by expansion_rate.
C13_ConnectedStaysConnected ==
    [][(last' = "Step" /\ done > 0)
         => \A ij \in lines :
              /\ ij \in lines'
              /\ \A i \in {ij[1], ij[2]} :
                   /\ isolation_counts[i] = 0
                   /\ isolation_counts'[i] = 0
                   /\ radii'[i] = radii[i] + expansion_rate]_vars

\* two points that touch in step 1 (tangent) are still joined at the end of
\* the run and have grown in every step
C13_Witness ==
    /\ pc = "show"
    /\ \E ij \in lines :
         /\ SqDist(points[ij[1]], points[ij[2]]) = 4 * expansion_rate * expansion_rate
         /\ radii[ij[1]] = steps * expansion_rate
         /\ radii[ij[2]] = steps * expansion_rate
         /\ ~reached_limit[ij[1]] /\ ~reached_limit[ij[2]]

\* ---- C14 ---------------------------------------------------------------
\* C14: at the end of a run, for every point that is frozen, each predicted
\* radius shown for it in the steps since it was last connected (so in a
\* step from which on it was never touched) equals its frozen radius.
C14_PredictionIsFrozenRadius ==
    pc = "show" =>
        \A i \in Idx : isolation_counts[i] >= isolation_limit
            => \A v \in untouched_pred[i] : v = radii[i]

\* ---- C15 ---------------------------------------------------------------
\* C15: in every step, the counter of a point after the step is 0 if, with
\* the radii as grown in the step, the point overlaps some other circle,
\* and is its previous value plus 1 otherwise, also when the previous value
\* is at or above the isolation limit.
C15_CounterUpdate ==
    [][last' = "Step"
         => \A i \in Idx :
              isolation_counts'[i] =
                 IF TouchedWith(i, radii'[i], radii') THEN 0
                 ELSE isolation_counts[i] + 1]_vars

\* a step has taken the counter of a frozen point beyond the limit and has
\* reset the counter of another point
C15_Witness ==
    /\ last = "Step"
    /\ \E i \in Idx : isolation_counts[i] > isolation_limit + 1
    /\ \E j \in Idx : isolation_counts[j] = 0 /\ done > 1

\* ---- C16 ---------------------------------------------------------------
\* C16: after every step, the number of points the step has drawn as not
\* active equals the number of stopped circles in the title of that step.
C16_FrozenCountMatchesTitle ==
    last = "Step" =>
        Cardinality({i \in Idx : ~active[i]}) = isolated_count

\* ---- C17 ---------------------------------------------------------------
\* C17: whatever signals were received during the placement phase, when the
\* placement loop is left the paused flag is false and the main code is at
\* the body of step 0, not in the pause loop.
C17_PlacementSignalsIgnored ==
    [][(pc = "placing" /\ pc' # "placing")
         => (~paused' /\ pc' = "step_body" /\ step' = 0)]_vars

\* ---- C18 ---------------------------------------------------------------
\* C18: a pause toggle changes only the paused flag, a restart signal only
\* the restart and paused flags, a click only the list of points; a handler
\* runs only while the main code is inside plt.pause or plt.show; radii and
\* counters change only in a step or in the (re)initialization of a run,
\* the step index only in the loop header or that initialization; and
\* whenever a handler can run after a step, the counters are those of the
\* radii of that step (0 exactly for the points that overlap another).
C18_HandlersLeaveSimulation ==
    /\ [][/\ last' = "KeySpace"
               => UNCHANGED <<restart_requested, manual_points_list, points, sim, pc,
                              done, reached_limit, connections, output, touch_hist>>
          /\ last' \in {"KeyR", "KeyR_paused"}
               => UNCHANGED <<manual_points_list, points, sim, pc,
                              done, reached_limit, connections, output, touch_hist>>
          /\ last' = "Click"
               => UNCHANGED <<paused, restart_requested, points, sim, pc,
                              done, reached_limit, connections, output, touch_hist>>
          /\ last' \in HandlerNames => AtYield
          /\ (radii' # radii \/ isolation_counts' # isolation_counts)
               => last' \in {"Step", "FinishPlacement"} \cup RestartNames
          /\ step' # step
               => last' \in {"NextIteration", "FinishPlacement"} \cup RestartNames]_vars
    /\ [](pc = "steppause"
            => \A i \in Idx :
                 isolation_counts[i] = 0 <=> TouchedWith(i, radii[i], radii))

\* a pause toggle has been handled in the pause that ends a step
C18_Witness ==
    /\ last = "KeySpace"
    /\ pc = "steppause"
    /\ paused
    /\ done = 10
    /\ radii # Zeros

\* ---- C19 ---------------------------------------------------------------
\* C19: in a run, after k executed steps every radius is a multiple of
\* expansion_rate between min(k, isolation_limit) * expansion_rate and
\* k * expansion_rate; and no step decreases a radius.
C19_RadiusBounds ==
    /\ [](pc # "placing"
            => \A i \in Idx :
                 /\ radii[i] % expansion_rate = 0
                 /\ Min(done, isolation_limit) * expansion_rate <= radii[i]
                 /\ radii[i] <= done * expansion_rate)
    /\ [][last' = "Step" => \A i \in Idx : radii'[i] >= radii[i]]_vars

\* a completed run with a radius at the upper bound and one strictly
\* between the bounds
C19_Witness ==
    /\ pc = "show"
    /\ \E i \in Idx : radii[i] = steps * expansion_rate
    /\ \E j \in Idx : /\ radii[j] > isolation_limit * expansion_rate
                      /\ radii[j] < steps * expansion_rate
====
